---- MODULE Spec2Model ----
(***************************************************************************)
(* Model of the retrieval core of bilibili-rag-bot:                        *)
(*   RAGClient (src/src/rag/client.py), ChromaDBStore                      *)
(*   (src/src/rag/stores/chromadb_store.py), Reranker                      *)
(*   (src/src/rag/reranker.py) and RealTimeFeishuRAG                       *)
(*   (src/src/rag/realtime_feishu_rag.py).                                 *)
(*                                                                         *)
(* Strings are sequences of one-character strings.  Similarity scores are  *)
(* integers in hundredths (score 100 = similarity 1.0); length scores are  *)
(* integers in thousandths; a rerank score is an exact integer numerator   *)
(* over the denominator 10000 * KwDen(query), which is the same for every  *)
(* candidate of one rerank call.                                           *)
(***************************************************************************)
EXTENDS Integers, Sequences, FiniteSets, TLC

VARIABLES
    collection,         \* ChromaDBStore._collection: records in insertion order
    collectionDeleted,  \* TRUE between delete_collection and get_or_create_collection
    enable_reranking,   \* RAGClient.enable_reranking
    lastCall,           \* observation of the last RAGClient call and its outcome
    rrQuery,            \* Reranker.rerank: argument query
    rrResults,          \* Reranker.rerank: the caller's list `results`
    rrTopK,             \* Reranker.rerank: argument top_k
    rrOutput,           \* Reranker.rerank: returned list
    rrPc,               \* "input" before the rerank call, "done" after it
    rpc,                \* refresh thread: position in refresh_vector_store
    documents,          \* refresh thread: list returned by feishu_loader.load()
    docIdx,             \* refresh thread: index of the next document to add
    last_update_time,   \* RealTimeFeishuRAG.last_update_time (0 = None)
    clock,              \* datetime.now(), advanced by each refresh
    refreshReturn,      \* value returned by the last refresh_vector_store call
    preRefresh,         \* collection as it was when the running refresh started
    spc,                \* reader thread: position in its client call
    sCall,              \* reader thread: the call in progress and what it observed
    scQuery,            \* scoring: the query handed to the Reranker
    scContent,          \* scoring: the candidate content being scored
    scKw,               \* scoring: _keyword_overlap_score(scQuery, scContent)
    scLen,              \* scoring: _length_score(scContent)
    scPair,             \* scoring: the two candidates of the length scenario
    scRanked,           \* scoring: rerank(scQuery, scPair, top_k=1)
    scPc,               \* "input", then "scored", then "ranked"
    ckContent,          \* load_file: text read from the file
    ckStrategy,         \* load_file: argument strategy
    ckSize,             \* load_file: argument chunk_size
    ckOverlap,          \* load_file: argument overlap
    ckPc,               \* "call", the running loop, then "done" or "error"
    ckItems,            \* sentences / lines / normalised content being walked
    ckIdx,              \* index of the next sentence or line; `start` (0-based)
    ckCur,              \* current_chunk
    ckCurSize,          \* current_size
    ckChunks,           \* chunks
    ckIter,             \* loop iterations of _chunk_by_fixed_size so far
    histFiles,          \* history/<platform>/<user_id>.json: the stored message list
    hPc,                \* per caller: position inside add_message
    hLocal,             \* per caller: the add_message call in progress
    hAdded,             \* per history: messages of the add_message calls that returned
    hDone,              \* per caller: add_message calls completed
    hObs,               \* observation of the last get_latest_messages call
    cPc,                \* position inside RAGChatService.chat
    cCall,              \* the chat call in progress and what it did
    cDone               \* chat calls completed

clientVars  == <<collection, collectionDeleted, enable_reranking, lastCall>>
rerankVars  == <<rrQuery, rrResults, rrTopK, rrOutput, rrPc>>
refreshVars == <<rpc, documents, docIdx, last_update_time, clock, refreshReturn,
                 preRefresh, spc, sCall>>
scoreVars   == <<scQuery, scContent, scKw, scLen, scPair, scRanked, scPc>>
chunkVars   == <<ckContent, ckStrategy, ckSize, ckOverlap, ckPc, ckItems, ckIdx,
                 ckCur, ckCurSize, ckChunks, ckIter>>
histVars    == <<histFiles, hPc, hLocal, hAdded, hDone, hObs, cPc, cCall, cDone>>
vars == <<clientVars, rerankVars, refreshVars, scoreVars, chunkVars, histVars>>

-----------------------------------------------------------------------------
(* Bounds *)

MaxDocs == 2          \* records kept in the collection
MaxLimit == 2         \* largest search limit tried
MaxCands == 3         \* candidates handed to Reranker.rerank
MaxRefreshes == 2     \* refresh_vector_store runs

-----------------------------------------------------------------------------
(* Python helpers *)

None == <<>>                       \* Optional[...] = None
Some(x) == <<x>>

Min2(a, b) == IF a <= b THEN a ELSE b
Max2(a, b) == IF a >= b THEN a ELSE b
Abs(a) == IF a >= 0 THEN a ELSE 0 - a

Rep(ch, n) == [i \in 1..n |-> ch]

Whitespace == {" ", "\t", "\n"}

\* str.strip(): drop leading and trailing whitespace
Strip(s) ==
    LET keep == {i \in 1..Len(s) : s[i] \notin Whitespace}
    IN  IF keep = {} THEN <<>>
        ELSE LET lo == CHOOSE i \in keep : \A j \in keep : i <= j
                 hi == CHOOSE i \in keep : \A j \in keep : i >= j
             IN  SubSeq(s, lo, hi)

\* IsBlank with the whitespace test left out: `not s`
IsBlank_EmptyOnly(s) == Len(s) = 0

\* `not s or not s.strip()`
IsBlank(s) == Len(s) = 0 \/ Len(Strip(s)) = 0

\* s.replace(" ", "")
RemoveSpaces(s) == SelectSeq(s, LAMBDA c : c # " ")

\* set(s)
CharSet(s) == {s[i] : i \in 1..Len(s)}

\* SliceTo cutting one element short: seq[:n - 1]
SliceTo_OffByOne(s, n) ==
    IF n - 1 >= 0 THEN SubSeq(s, 1, Min2(n - 1, Len(s)))
    ELSE SubSeq(s, 1, Max2(0, Len(s) + n - 1))

\* seq[:n]
SliceTo(s, n) ==
    IF n >= 0 THEN SubSeq(s, 1, Min2(n, Len(s)))
    ELSE SubSeq(s, 1, Max2(0, Len(s) + n))

\* StableSortDesc as an ascending sort followed by reverse(): equal keys swap
StableSortDesc_Reversed(s, keys) ==
    LET n == Len(s)
        rank(i) == 1 + Cardinality({j \in 1..n :
                        keys[j] > keys[i] \/ (keys[j] = keys[i] /\ j > i)})
    IN  [p \in 1..n |-> s[CHOOSE i \in 1..n : rank(i) = p]]

\* list.sort(key=..., reverse=True) and the index's nearest-first order:
\* keys[i] is the key of s[i]; larger keys first, equal keys keep input order
StableSortDesc(s, keys) ==
    LET n == Len(s)
        rank(i) == 1 + Cardinality({j \in 1..n :
                        keys[j] > keys[i] \/ (keys[j] = keys[i] /\ j < i)})
    IN  [p \in 1..n |-> s[CHOOSE i \in 1..n : rank(i) = p]]

-----------------------------------------------------------------------------
(* Embedding capability and vector index (external collaborators) *)

CountOf(s, c) == Cardinality({i \in 1..Len(s) : s[i] = c})

\* BaseEmbedding.encode: deterministic text -> vector
Encode(text) == <<CountOf(text, "a"), CountOf(text, "b")>>

\* distance reported by the index, in hundredths, within [0, 200]
Distance(u, v) == Min2(200, 50 * (Abs(u[1] - v[1]) + Abs(u[2] - v[2])))

\* collection.query(query_embeddings=[qe], n_results=k, where=filter):
\* the k nearest records matching the filter, nearest first
IndexQuery(coll, qe, k, filter) ==
    LET match == SelectSeq(coll, LAMBDA d : filter = None \/ d.metadata = filter)
        dist == [i \in 1..Len(match) |-> Distance(qe, match[i].embedding)]
        near == StableSortDesc(match, [i \in 1..Len(match) |-> 0 - dist[i]])
        ndist == StableSortDesc(dist, [i \in 1..Len(match) |-> 0 - dist[i]])
        n == Min2(k, Len(match))
    IN  [i \in 1..n |-> [id |-> near[i].doc_id, document |-> near[i].content,
                         metadata |-> near[i].metadata, distance |-> ndist[i]]]

-----------------------------------------------------------------------------
(* ChromaDBStore *)

\* FormatResults with an exclusive threshold: `score <= score_threshold`
FormatResults_Exclusive(raw, score_threshold) ==
    LET scored == [i \in 1..Len(raw) |->
                     [doc_id |-> raw[i].id, content |-> raw[i].document,
                      metadata |-> raw[i].metadata, score |-> 100 - raw[i].distance]]
    IN  SelectSeq(scored, LAMBDA r :
            ~(score_threshold # None /\ r.score <= score_threshold[1]))

\* ChromaDBStore.search, lines 125-146: distance -> similarity, threshold
FormatResults(raw, score_threshold) ==
    LET scored == [i \in 1..Len(raw) |->
                     [doc_id |-> raw[i].id, content |-> raw[i].document,
                      metadata |-> raw[i].metadata, score |-> 100 - raw[i].distance]]
    IN  SelectSeq(scored, LAMBDA r :
            ~(score_threshold # None /\ r.score < score_threshold[1]))

\* ChromaDBStore.search: the index rejects a deleted collection and n_results <= 0
StoreSearch(coll, deleted, qe, limit, score_threshold, filter, idxOk) ==
    IF qe = <<>> THEN
        [outcome |-> "ValueError", indexCalls |-> 0, raw |-> <<>>, results |-> <<>>,
         sawDeleted |-> FALSE]
    ELSE IF deleted \/ ~idxOk \/ limit <= 0 THEN
        [outcome |-> "IndexFailure", indexCalls |-> 1, raw |-> <<>>, results |-> <<>>,
         sawDeleted |-> deleted]
    ELSE LET raw == IndexQuery(coll, qe, limit, filter)
         IN  [outcome |-> "ok", indexCalls |-> 1, raw |-> raw,
              results |-> FormatResults(raw, score_threshold), sawDeleted |-> FALSE]

Ids(coll) == {coll[i].doc_id : i \in 1..Len(coll)}

UuidName(i) == "u" \o ToString(i)

\* [str(uuid.uuid4()) for _ in documents]: n ids not yet in the collection
FreshIds(coll, n) ==
    LET free == {i \in 1..(Len(coll) + n) : UuidName(i) \notin Ids(coll)}
        nth[k \in 0..n] ==
            IF k = 0 THEN 0
            ELSE CHOOSE i \in free : i > nth[k - 1] /\
                     \A j \in free : j > nth[k - 1] => i <= j
    IN  [k \in 1..n |-> UuidName(nth[k])]

\* collection.add: a record whose id is already stored is ignored
RECURSIVE CollectionAdd(_, _)
CollectionAdd(coll, recs) ==
    IF recs = <<>> THEN coll
    ELSE IF Head(recs).doc_id \in Ids(coll) THEN CollectionAdd(coll, Tail(recs))
    ELSE CollectionAdd(Append(coll, Head(recs)), Tail(recs))

\* ChromaDBStore.add_documents
StoreAdd(coll, deleted, docs, embeddings, metadatas, ids, idxOk) ==
    IF Len(docs) # Len(embeddings) THEN
        [outcome |-> "ValueError", indexCalls |-> 0, coll |-> coll, ids |-> <<>>,
         sawDeleted |-> FALSE]
    ELSE IF deleted \/ ~idxOk THEN
        [outcome |-> "IndexFailure", indexCalls |-> 1, coll |-> coll, ids |-> <<>>,
         sawDeleted |-> deleted]
    ELSE LET theIds == IF ids = None THEN FreshIds(coll, Len(docs)) ELSE ids[1]
             recs == [i \in 1..Len(docs) |->
                        [doc_id |-> theIds[i], content |-> docs[i],
                         metadata |-> IF metadatas = None THEN None
                                      ELSE metadatas[1][i],
                         embedding |-> embeddings[i]]]
         IN  [outcome |-> "ok", indexCalls |-> 1, coll |-> CollectionAdd(coll, recs),
              ids |-> theIds, sawDeleted |-> FALSE]

\* ChromaDBStore.delete_documents
StoreDelete(coll, ids) ==
    IF ids # {} THEN SelectSeq(coll, LAMBDA d : d.doc_id \notin ids) ELSE coll

-----------------------------------------------------------------------------
(* Reranker *)

\* set(query.replace(" ", ""))
QueryChars(query) == CharSet(RemoveSpaces(query))

\* denominator of the keyword overlap score: len(query_chars), 1 when empty
KwDen(query) == IF QueryChars(query) = {} THEN 1 ELSE Cardinality(QueryChars(query))

\* Reranker._keyword_overlap_score, as a numerator over KwDen(query)
KeywordOverlapScore(query, content) ==
    LET query_chars == QueryChars(query)
        content_chars == CharSet(RemoveSpaces(content))
    IN  IF query_chars = {} THEN 0
        ELSE Min2(Cardinality(query_chars \cap content_chars), KwDen(query))

\* LengthScore without the 0.5 floor: max(0.0, ...)
LengthScore_NoFloor(content) ==
    LET length == Len(content)
    IN  IF 200 <= length /\ length <= 500 THEN 1000
        ELSE IF length < 200 THEN 5 * length
        ELSE Max2(0, 1000 - (length - 500))

\* Reranker._length_score, in thousandths
LengthScore(content) ==
    LET length == Len(content)
    IN  IF 200 <= length /\ length <= 500 THEN 1000
        ELSE IF length < 200 THEN 5 * length
        ELSE Max2(500, 1000 - (length - 500))

\* Reranker._calculate_relevance_score, as a numerator over 10000 * KwDen(query)
CalculateRelevanceScore(query, result) ==
    LET vector_score == 5 * (10 * result.score) * KwDen(query)
        keyword_score == 3 * 1000 * KeywordOverlapScore(query, result.content)
        length_score == 2 * LengthScore(result.content) * KwDen(query)
    IN  vector_score + keyword_score + length_score

\* ScoreOne without result.copy(): the score is written into the caller's dict
ScoreOne_InPlace(query, result) ==
    LET score == CalculateRelevanceScore(query, result)
        scored == [f \in DOMAIN result \cup {"rerank_score"} |->
                      IF f = "rerank_score" THEN score ELSE result[f]]
    IN  [original |-> scored, scored |-> scored]

\* Reranker.rerank, lines 32-36: one loop iteration; `original` is the caller's
\* dict after the iteration, `scored` the dict appended to scored_results
ScoreOne(query, result) ==
    LET score == CalculateRelevanceScore(query, result)
        result_copy == [f \in DOMAIN result \cup {"rerank_score"} |->
                           IF f = "rerank_score" THEN score ELSE result[f]]
    IN  [original |-> result, scored |-> result_copy]

\* SortByRerankScore without reverse=True: ascending
SortByRerankScore_Ascending(scored_results) ==
    StableSortDesc(scored_results,
                   [i \in 1..Len(scored_results) |-> 0 - scored_results[i].rerank_score])

\* scored_results.sort(key=lambda x: x["rerank_score"], reverse=True)
SortByRerankScore(scored_results) ==
    StableSortDesc(scored_results,
                   [i \in 1..Len(scored_results) |-> scored_results[i].rerank_score])

\* Reranker.rerank: `results` is the caller's list after the call
Rerank(query, results, top_k) ==
    LET each == [i \in 1..Len(results) |-> ScoreOne(query, results[i])]
        scored_results == [i \in 1..Len(results) |-> each[i].scored]
    IN  [results |-> [i \in 1..Len(results) |-> each[i].original],
         output |-> SliceTo(SortByRerankScore(scored_results), top_k)]

-----------------------------------------------------------------------------
(* RAGClient *)

DefaultSearchLimit == 5

\* SearchK without the over-fetch for re-ranking
SearchK_NoOverfetch(reranking, limit) == limit

\* RAGClient.search, line 228: n_results asked of the vector store
SearchK(reranking, limit) == IF ~reranking THEN limit ELSE limit * 2

\* RAGClient.search, lines 217-218
EffectiveLimit(limitArg) == IF limitArg = None THEN DefaultSearchLimit ELSE limitArg[1]

\* RAGClient.search; limit and score_threshold are Optional
ClientSearch(coll, deleted, reranking, query, limitArg, score_threshold, filter, embOk, idxOk) ==
    LET limit == EffectiveLimit(limitArg)
        blank == [outcome |-> "ValueError", result |-> <<>>, encodeCalls |-> 0,
                  indexCalls |-> 0, indexK |-> 0, raw |-> <<>>, candidates |-> <<>>,
                  sawDeleted |-> FALSE]
    IN  IF IsBlank(query) THEN blank
        ELSE IF ~embOk THEN
            [blank EXCEPT !.outcome = "EmbeddingFailure", !.encodeCalls = 1]
        ELSE
            LET k == SearchK(reranking, limit)
                found == StoreSearch(coll, deleted, Encode(query), k, score_threshold,
                                     filter, idxOk)
                results == IF reranking /\ found.results # <<>>
                           THEN Rerank(query, found.results, limit).output
                           ELSE found.results
            IN  IF found.outcome # "ok" THEN
                    [blank EXCEPT !.outcome = found.outcome, !.encodeCalls = 1,
                                  !.indexCalls = found.indexCalls, !.indexK = k,
                                  !.sawDeleted = found.sawDeleted]
                ELSE
                    [outcome |-> "ok", result |-> SliceTo(results, limit),
                     encodeCalls |-> 1, indexCalls |-> 1, indexK |-> k,
                     raw |-> found.raw, candidates |-> found.results,
                     sawDeleted |-> FALSE]

\* ClientAddDocument catching the embedding error and returning no id
ClientAddDocument_Swallow(coll, deleted, content, metadata, doc_id, embOk, idxOk) ==
    LET fail == [outcome |-> "ValueError", coll |-> coll, ids |-> <<>>,
                 encodeCalls |-> 0, indexCalls |-> 0, sawDeleted |-> FALSE]
    IN  IF IsBlank(content) THEN fail
        ELSE IF ~embOk THEN
            [fail EXCEPT !.outcome = "ok", !.encodeCalls = 1]
        ELSE
            LET added == StoreAdd(coll, deleted, <<content>>, <<Encode(content)>>,
                                  IF metadata # None THEN Some(<<metadata>>) ELSE None,
                                  IF doc_id # None /\ doc_id[1] # ""
                                  THEN Some(<<doc_id[1]>>) ELSE None,
                                  idxOk)
            IN  [outcome |-> added.outcome, coll |-> added.coll, ids |-> added.ids,
                 encodeCalls |-> 1, indexCalls |-> added.indexCalls,
                 sawDeleted |-> added.sawDeleted]

\* RAGClient.add_document; metadata and doc_id are Optional
ClientAddDocument(coll, deleted, content, metadata, doc_id, embOk, idxOk) ==
    LET fail == [outcome |-> "ValueError", coll |-> coll, ids |-> <<>>,
                 encodeCalls |-> 0, indexCalls |-> 0, sawDeleted |-> FALSE]
    IN  IF IsBlank(content) THEN fail
        ELSE IF ~embOk THEN
            [fail EXCEPT !.outcome = "EmbeddingFailure", !.encodeCalls = 1]
        ELSE
            LET added == StoreAdd(coll, deleted, <<content>>, <<Encode(content)>>,
                                  IF metadata # None THEN Some(<<metadata>>) ELSE None,
                                  IF doc_id # None /\ doc_id[1] # ""
                                  THEN Some(<<doc_id[1]>>) ELSE None,
                                  idxOk)
            IN  [outcome |-> added.outcome, coll |-> added.coll, ids |-> added.ids,
                 encodeCalls |-> 1, indexCalls |-> added.indexCalls,
                 sawDeleted |-> added.sawDeleted]

\* RAGClient.add_documents, called with documents only
ClientAddDocuments(coll, deleted, docs, embOk, idxOk) ==
    LET fail == [outcome |-> "ok", coll |-> coll, ids |-> <<>>,
                 encodeCalls |-> 0, indexCalls |-> 0, sawDeleted |-> FALSE]
    IN  IF docs = <<>> THEN fail
        ELSE IF ~embOk THEN
            [fail EXCEPT !.outcome = "EmbeddingFailure", !.encodeCalls = 1]
        ELSE
            LET added == StoreAdd(coll, deleted, docs,
                                  [i \in 1..Len(docs) |-> Encode(docs[i])],
                                  None, None, idxOk)
            IN  [outcome |-> added.outcome, coll |-> added.coll, ids |-> added.ids,
                 encodeCalls |-> 1, indexCalls |-> added.indexCalls,
                 sawDeleted |-> added.sawDeleted]

-----------------------------------------------------------------------------
(* Inputs *)

Queries == {<<>>, <<" ">>, <<"a">>, <<"a", "b">>}
Batches == {<<>>, << <<"a">> >>, << <<"a", "b">>, <<" ">> >>}
Limits == {None} \cup {Some(n) : n \in (0 - 1)..MaxLimit}

\* add_document(content, metadata, doc_id) calls tried
AddArgs ==
    {[content |-> c, metadata |-> None, doc_id |-> None] :
         c \in {<<>>, <<" ">>, <<"a">>, <<"a", "b">>}}
    \cup {[content |-> <<"a">>, metadata |-> Some("m"), doc_id |-> Some("d1")],
          [content |-> <<"a", "b">>, metadata |-> None, doc_id |-> Some("")]}

\* (score_threshold, filter_metadata) pairs tried by search
SearchOptions ==
    {[score_threshold |-> None, filter |-> None],
     [score_threshold |-> Some(50), filter |-> None],
     [score_threshold |-> Some(0), filter |-> Some("m")]}

Faults == {"none", "embedding", "index"}   \* which collaborator raises, if any

idle == [op |-> "none"]

\* the parts of a specification that it does not use
ClientUnused ==
    /\ collection = <<>>
    /\ collectionDeleted = FALSE
    /\ enable_reranking = TRUE
    /\ lastCall = idle

RerankUnused ==
    /\ rrQuery = <<>>
    /\ rrResults = <<>>
    /\ rrTopK = 0
    /\ rrOutput = <<>>
    /\ rrPc = "unused"

RefreshUnused ==
    /\ rpc = "unused"
    /\ documents = <<>>
    /\ docIdx = 0
    /\ last_update_time = 0
    /\ clock = 0
    /\ refreshReturn = None
    /\ preRefresh = <<>>
    /\ spc = "unused"
    /\ sCall = idle

ScoreUnused ==
    /\ scQuery = <<>>
    /\ scContent = <<>>
    /\ scKw = 0
    /\ scLen = 0
    /\ scPair = <<>>
    /\ scRanked = <<>>
    /\ scPc = "unused"

ChunkUnused ==
    /\ ckContent = <<>>
    /\ ckStrategy = "unused"
    /\ ckSize = 0
    /\ ckOverlap = 0
    /\ ckPc = "unused"
    /\ ckItems = <<>>
    /\ ckIdx = 0
    /\ ckCur = <<>>
    /\ ckCurSize = 0
    /\ ckChunks = <<>>
    /\ ckIter = 0

HistUnused ==
    /\ histFiles = <<>>
    /\ hPc = <<>>
    /\ hLocal = <<>>
    /\ hAdded = <<>>
    /\ hDone = <<>>
    /\ hObs = idle
    /\ cPc = "unused"
    /\ cCall = idle
    /\ cDone = 0

-----------------------------------------------------------------------------
(* Spec: one caller using a RAGClient *)

\* RAGClient.__init__ with an empty collection
Init ==
    /\ collection = <<>>
    /\ collectionDeleted = FALSE
    /\ enable_reranking \in BOOLEAN
    /\ lastCall = idle
    /\ RerankUnused
    /\ RefreshUnused
    /\ ScoreUnused
    /\ ChunkUnused
    /\ HistUnused

\* Search that evicts the oldest record while it reads
Search_Evicting ==
    \E query \in Queries, limit \in Limits, opt \in SearchOptions, fault \in Faults :
        LET score_threshold == opt.score_threshold
            filter == opt.filter
            r == ClientSearch(collection, collectionDeleted, enable_reranking,
                              query, limit, score_threshold, filter,
                              fault # "embedding", fault # "index")
        IN  /\ lastCall = idle
            /\ lastCall' = [op |-> "search", query |-> query, limit |-> limit,
                            score_threshold |-> score_threshold, filter |-> filter,
                            fault |-> fault, before |-> collection, outcome |-> r.outcome,
                            result |-> r.result, encodeCalls |-> r.encodeCalls,
                            indexCalls |-> r.indexCalls, indexK |-> r.indexK,
                            raw |-> r.raw, candidates |-> r.candidates]
            /\ collection' = SubSeq(collection, 2, Len(collection))
            /\ UNCHANGED <<collectionDeleted, enable_reranking>>
            /\ UNCHANGED <<rerankVars, scoreVars, chunkVars, histVars, refreshVars>>

\* RAGClient.search
Search ==
    \E query \in Queries, limit \in Limits, opt \in SearchOptions, fault \in Faults :
        LET score_threshold == opt.score_threshold
            filter == opt.filter
            r == ClientSearch(collection, collectionDeleted, enable_reranking,
                              query, limit, score_threshold, filter,
                              fault # "embedding", fault # "index")
        IN  /\ lastCall = idle
            /\ lastCall' = [op |-> "search", query |-> query, limit |-> limit,
                            score_threshold |-> score_threshold, filter |-> filter,
                            fault |-> fault, before |-> collection, outcome |-> r.outcome,
                            result |-> r.result, encodeCalls |-> r.encodeCalls,
                            indexCalls |-> r.indexCalls, indexK |-> r.indexK,
                            raw |-> r.raw, candidates |-> r.candidates]
            /\ UNCHANGED <<collection, collectionDeleted, enable_reranking>>
            /\ UNCHANGED <<rerankVars, scoreVars, chunkVars, histVars, refreshVars>>

\* RAGClient.add_document
AddDocument ==
    \E args \in AddArgs, fault \in Faults :
        LET content == args.content
            r == ClientAddDocument(collection, collectionDeleted, content,
                                   args.metadata, args.doc_id,
                                   fault # "embedding", fault # "index")
        IN  /\ lastCall = idle
            /\ Len(r.coll) <= MaxDocs
            /\ collection' = r.coll
            /\ lastCall' = [op |-> "add_document", content |-> content,
                            fault |-> fault, before |-> collection, outcome |-> r.outcome,
                            ids |-> r.ids, encodeCalls |-> r.encodeCalls,
                            indexCalls |-> r.indexCalls]
            /\ UNCHANGED <<collectionDeleted, enable_reranking>>
            /\ UNCHANGED <<rerankVars, scoreVars, chunkVars, histVars, refreshVars>>

\* RAGClient.add_documents
AddDocuments ==
    \E docs \in Batches, fault \in Faults :
        LET r == ClientAddDocuments(collection, collectionDeleted, docs,
                                    fault # "embedding", fault # "index")
        IN  /\ lastCall = idle
            /\ Len(r.coll) <= MaxDocs
            /\ collection' = r.coll
            /\ lastCall' = [op |-> "add_documents", docs |-> docs,
                            fault |-> fault, before |-> collection, outcome |-> r.outcome,
                            ids |-> r.ids, encodeCalls |-> r.encodeCalls,
                            indexCalls |-> r.indexCalls]
            /\ UNCHANGED <<collectionDeleted, enable_reranking>>
            /\ UNCHANGED <<rerankVars, scoreVars, chunkVars, histVars, refreshVars>>

\* RAGClient.delete_documents
DeleteDocuments ==
    \E ids \in SUBSET (Ids(collection) \cup {"d1"}) :
        /\ lastCall = idle
        /\ collection' = StoreDelete(collection, ids)
        /\ lastCall' = [op |-> "delete_documents", ids |-> ids,
                        before |-> collection, outcome |-> "ok"]
        /\ UNCHANGED <<collectionDeleted, enable_reranking>>
        /\ UNCHANGED <<rerankVars, scoreVars, chunkVars, histVars, refreshVars>>

\* Reset that keeps the oldest record
Reset_KeepsOldest ==
    /\ lastCall = idle
    /\ collection' = SubSeq(collection, 1, Min2(1, Len(collection)))
    /\ collectionDeleted' = FALSE
    /\ lastCall' = [op |-> "reset", before |-> collection, outcome |-> "ok"]
    /\ UNCHANGED enable_reranking
    /\ UNCHANGED <<rerankVars, scoreVars, chunkVars, histVars, refreshVars>>

\* RAGClient.reset -> ChromaDBStore.reset, with no other caller in between
Reset ==
    /\ lastCall = idle
    /\ collection' = <<>>
    /\ collectionDeleted' = FALSE
    /\ lastCall' = [op |-> "reset", before |-> collection, outcome |-> "ok"]
    /\ UNCHANGED enable_reranking
    /\ UNCHANGED <<rerankVars, scoreVars, chunkVars, histVars, refreshVars>>

\* RAGClient.document_count
DocumentCount ==
    /\ lastCall = idle
    /\ lastCall' = [op |-> "document_count", before |-> collection,
                    outcome |-> "ok", result |-> Len(collection)]
    /\ UNCHANGED <<collection, collectionDeleted, enable_reranking>>
    /\ UNCHANGED <<rerankVars, scoreVars, chunkVars, histVars, refreshVars>>

\* the caller takes the returned value (or the raised error) and goes on
Return ==
    /\ lastCall # idle
    /\ lastCall' = idle
    /\ UNCHANGED <<collection, collectionDeleted, enable_reranking>>
    /\ UNCHANGED <<rerankVars, scoreVars, chunkVars, histVars, refreshVars>>

Next ==
    \/ Search
    \/ AddDocument
    \/ AddDocuments
    \/ DeleteDocuments
    \/ Reset
    \/ DocumentCount
    \/ Return

Spec == Init /\ [][Next]_vars

-----------------------------------------------------------------------------
(* Properties of RAGClient.search, checked under Spec *)

SearchReturned == lastCall.op = "search" /\ lastCall.outcome = "ok"

\* position of the record with this doc_id in a raw index answer
RawPos(raw, doc_id) == CHOOSE i \in 1..Len(raw) : raw[i].id = doc_id

\* C3: with re-ranking enabled, a search that returns has queried the index
\* once with k = 2 * limit and returns Reranker.rerank(query, candidates,
\* top_k = limit): every result is one of the index's candidates, carries a
\* rerank_score, and at most limit results are returned.
C3_RerankComposition ==
    (SearchReturned /\ enable_reranking) =>
        LET limit == EffectiveLimit(lastCall.limit)
        IN  /\ lastCall.encodeCalls = 1
            /\ lastCall.indexCalls = 1
            /\ lastCall.indexK = 2 * limit
            /\ Len(lastCall.raw) <= 2 * limit
            /\ lastCall.result = Rerank(lastCall.query, lastCall.candidates, limit).output
            /\ Len(lastCall.result) <= limit
            /\ \A i \in 1..Len(lastCall.result) :
                /\ "rerank_score" \in DOMAIN lastCall.result[i]
                /\ \E j \in 1..Len(lastCall.raw) :
                       lastCall.raw[j].id = lastCall.result[i].doc_id

\* C3 witness: the index returned 2 * limit candidates and rerank cut them to limit
C3_Witness ==
    /\ SearchReturned /\ enable_reranking
    /\ lastCall.limit = Some(1)
    /\ Len(lastCall.raw) = 2
    /\ Len(lastCall.result) = 1
    /\ lastCall.result[1].doc_id # lastCall.raw[1].id

\* C4: with no threshold and no filter, a search with limit >= 1 returns exactly
\* min(limit, number of records) results, re-ranking enabled or not.
C4_ResultCount ==
    (/\ lastCall.op = "search"
     /\ lastCall.fault = "none"
     /\ ~IsBlank(lastCall.query)
     /\ EffectiveLimit(lastCall.limit) >= 1
     /\ lastCall.score_threshold = None
     /\ lastCall.filter = None) =>
        /\ lastCall.outcome = "ok"
        /\ Len(lastCall.result) =
               Min2(EffectiveLimit(lastCall.limit), Len(collection))

\* C4 witness: more records than the limit, and the limit is what comes back
C4_Witness ==
    /\ SearchReturned
    /\ lastCall.score_threshold = None /\ lastCall.filter = None
    /\ Len(collection) = 2
    /\ lastCall.limit = Some(1)
    /\ Len(lastCall.result) = 1

\* C5: an empty or whitespace-only query fails with ValueError before the
\* embedding capability or the index is called; the collection is unchanged.
C5_EmptyQueryRejected ==
    (lastCall.op = "search" /\ \A i \in 1..Len(lastCall.query) :
                                   lastCall.query[i] \in Whitespace) =>
        /\ lastCall.outcome = "ValueError"
        /\ lastCall.encodeCalls = 0
        /\ lastCall.indexCalls = 0
        /\ collection = lastCall.before

\* C5 witness: a whitespace-only query against a populated collection
C5_Witness ==
    /\ lastCall.op = "search"
    /\ lastCall.query = <<" ">>
    /\ lastCall.outcome = "ValueError"
    /\ Len(collection) >= 1

\* C6: a non-empty query with limit <= 0 fails with an invalid-argument error
\* before the embedding capability or the index is called.
C6_NonPositiveLimitRejected ==
    (/\ lastCall.op = "search"
     /\ lastCall.fault = "none"
     /\ ~IsBlank(lastCall.query)
     /\ EffectiveLimit(lastCall.limit) <= 0) =>
        /\ lastCall.outcome = "ValueError"
        /\ lastCall.encodeCalls = 0
        /\ lastCall.indexCalls = 0

\* C7: with score_threshold = t, every candidate the store returns has
\* similarity >= t, every one of the index's k nearest that is not returned
\* has similarity < t, and the survivors keep the index's order.
C7_ThresholdInclusive ==
    (SearchReturned /\ lastCall.score_threshold # None) =>
        LET t == lastCall.score_threshold[1]
            raw == lastCall.raw
            kept == lastCall.candidates
            keptIds == {kept[i].doc_id : i \in 1..Len(kept)}
        IN  /\ \A i \in 1..Len(kept) :
                /\ kept[i].score >= t
                /\ \E j \in 1..Len(raw) : /\ raw[j].id = kept[i].doc_id
                                          /\ kept[i].score = 100 - raw[j].distance
                                          /\ kept[i].content = raw[j].document
            /\ \A j \in 1..Len(raw) :
                raw[j].id \notin keptIds => 100 - raw[j].distance < t
            /\ \A p, q \in 1..Len(kept) :
                p < q => RawPos(raw, kept[p].doc_id) < RawPos(raw, kept[q].doc_id)

\* C7 witness: one candidate exactly at the threshold is kept, one below is dropped
C7_Witness ==
    /\ SearchReturned /\ lastCall.score_threshold = Some(50)
    /\ Len(lastCall.raw) = 2
    /\ Len(lastCall.candidates) = 1
    /\ lastCall.candidates[1].score = 50

-----------------------------------------------------------------------------
(* SpecRerank: Reranker.rerank applied to bounded candidate lists *)

CandContents == {<<"a">>, <<"b">>, <<"a", "b">>}
CandScores == {50, 100}
RerankQueries == {<<" ">>, <<"a">>, <<"a", "b">>}

\* candidate lists as the vector store returns them: distinct doc_ids
CandidateLists ==
    UNION {[1..n -> CandContents \X CandScores] : n \in 0..MaxCands}

MakeCandidates(l) ==
    [i \in 1..Len(l) |-> [doc_id |-> "c" \o ToString(i), content |-> l[i][1],
                          metadata |-> None, score |-> l[i][2]]]

InitRerank ==
    /\ rrQuery \in RerankQueries
    /\ \E l \in CandidateLists : rrResults = MakeCandidates(l)
    /\ rrTopK \in 0..MaxCands
    /\ rrOutput = <<>>
    /\ rrPc = "input"
    /\ ClientUnused
    /\ RefreshUnused
    /\ ScoreUnused
    /\ ChunkUnused
    /\ HistUnused

\* one call of Reranker.rerank(rrQuery, rrResults, rrTopK)
DoRerank ==
    /\ rrPc = "input"
    /\ LET r == Rerank(rrQuery, rrResults, rrTopK)
       IN  /\ rrResults' = r.results
           /\ rrOutput' = r.output
    /\ rrPc' = "done"
    /\ UNCHANGED <<rrQuery, rrTopK>>
    /\ UNCHANGED <<clientVars, refreshVars, scoreVars, chunkVars, histVars>>

NextRerank == DoRerank

SpecRerank == InitRerank /\ [][NextRerank]_vars

-----------------------------------------------------------------------------
(* Properties of Reranker.rerank, checked under SpecRerank *)

\* position of the candidate with this doc_id in the list handed to rerank
InputPos(doc_id) == CHOOSE i \in 1..Len(rrResults) : rrResults[i].doc_id = doc_id

OutputIds == {rrOutput[i].doc_id : i \in 1..Len(rrOutput)}

OutputPos(doc_id) == CHOOSE i \in 1..Len(rrOutput) : rrOutput[i].doc_id = doc_id

\* C8: the output is in non-increasing order of rerank_score, where
\* rerank_score = 0.5 * similarity + 0.3 * keyword_overlap + 0.2 * length_score
\* (here times 10000 * KwDen(query)); of two candidates with the same similarity
\* and length_score, the one with strictly higher keyword_overlap is never
\* ranked lower.
C8_SortedByBlendedScore ==
    rrPc = "done" =>
        /\ \A p, q \in 1..Len(rrOutput) :
               p < q => rrOutput[p].rerank_score >= rrOutput[q].rerank_score
        /\ \A p \in 1..Len(rrOutput) :
               rrOutput[p].rerank_score =
                     50 * rrOutput[p].score * KwDen(rrQuery)
                   + 3000 * KeywordOverlapScore(rrQuery, rrOutput[p].content)
                   + 2 * LengthScore(rrOutput[p].content) * KwDen(rrQuery)
        /\ \A i, j \in 1..Len(rrResults) :
               (/\ rrResults[i].score = rrResults[j].score
                /\ LengthScore(rrResults[i].content) = LengthScore(rrResults[j].content)
                /\ KeywordOverlapScore(rrQuery, rrResults[i].content) >
                       KeywordOverlapScore(rrQuery, rrResults[j].content)
                /\ rrResults[j].doc_id \in OutputIds) =>
                    /\ rrResults[i].doc_id \in OutputIds
                    /\ OutputPos(rrResults[i].doc_id) < OutputPos(rrResults[j].doc_id)

\* C8 witness: the later input has the same similarity and length but more
\* keyword overlap, and comes out first
C8_Witness ==
    /\ rrPc = "done"
    /\ Len(rrOutput) >= 2
    /\ \E i, j \in 1..Len(rrResults) :
        /\ i < j
        /\ rrResults[i].score = rrResults[j].score
        /\ Len(rrResults[i].content) = Len(rrResults[j].content)
        /\ KeywordOverlapScore(rrQuery, rrResults[j].content) >
               KeywordOverlapScore(rrQuery, rrResults[i].content)
        /\ rrResults[i].doc_id \in OutputIds
        /\ OutputPos(rrResults[j].doc_id) < OutputPos(rrResults[i].doc_id)

\* C9: the sort is stable: two candidates with equal rerank_score come out in
\* the relative order they had in the input list.
C9_StableSort ==
    rrPc = "done" =>
        \A p, q \in 1..Len(rrOutput) :
            (p < q /\ rrOutput[p].rerank_score = rrOutput[q].rerank_score) =>
                InputPos(rrOutput[p].doc_id) < InputPos(rrOutput[q].doc_id)

\* C9 witness: two different candidates tie on rerank_score and both come out
C9_Witness ==
    /\ rrPc = "done"
    /\ \E p, q \in 1..Len(rrOutput) :
        /\ p < q
        /\ rrOutput[p].rerank_score = rrOutput[q].rerank_score
        /\ rrOutput[p].content # rrOutput[q].content

\* C10: rerank leaves the caller's list as it was (same length, order and
\* fields, no rerank_score added); the scores are on the returned copies only.
C10_NoSideEffects ==
    /\ [][rrResults' = rrResults]_vars
    /\ [](rrPc = "done" =>
            /\ \A i \in 1..Len(rrResults) :
                   DOMAIN rrResults[i] = {"doc_id", "content", "metadata", "score"}
            /\ \A p \in 1..Len(rrOutput) :
                   "rerank_score" \in DOMAIN rrOutput[p])

\* C10 witness: a call that scored and returned several candidates
C10_Witness ==
    /\ rrPc = "done"
    /\ Len(rrResults) >= 2
    /\ Len(rrOutput) >= 2
    /\ \A p \in 1..Len(rrOutput) : rrOutput[p].rerank_score > 0

-----------------------------------------------------------------------------
(* SpecRefresh: RealTimeFeishuRAG with the scheduler's refresh thread and a *)
(* reader thread calling search / document_count                            *)

\* what feishu_loader.load() can return: validated documents (content not blank)
Loads ==
    { <<>>,
      << [doc_id |-> "f1", content |-> <<"a">>] >>,
      << [doc_id |-> "f1", content |-> <<"a", "b">>],
         [doc_id |-> "f2", content |-> <<"a">>] >> }

FeishuMetadata == Some("feishu")

ReaderQueries == {<<"a">>, <<"a", "b">>}

\* _initialize_vector_store, lines 82-99, run to completion without a failure
RECURSIVE AddAll(_, _)
AddAll(coll, docs) ==
    IF docs = <<>> THEN coll
    ELSE AddAll(ClientAddDocument(coll, FALSE, Head(docs).content, FeishuMetadata,
                                  Some(Head(docs).doc_id), TRUE, TRUE).coll,
                Tail(docs))

\* RealTimeFeishuRAG.search: any exception of RAGClient.search becomes []
RealTimeSearch(coll, deleted, reranking, query, limit) ==
    LET r == ClientSearch(coll, deleted, reranking, query, Some(limit), None, None,
                          TRUE, TRUE)
    IN  [result |-> IF r.outcome = "ok" THEN r.result ELSE <<>>,
         raised |-> r.outcome # "ok",
         sawDeleted |-> r.sawDeleted]

\* RealTimeFeishuRAG.__init__: RAGClient(config=None) enables re-ranking, then
\* _initialize_vector_store has run once without raising
InitRefresh ==
    /\ \E docs \in Loads :
        /\ collection = AddAll(<<>>, docs)
        /\ documents = docs
        /\ last_update_time = IF docs = <<>> THEN 0 ELSE 1
    /\ collectionDeleted = FALSE
    /\ enable_reranking = TRUE
    /\ lastCall = idle
    /\ rpc = "idle"
    /\ docIdx = 0
    /\ clock = 1
    /\ refreshReturn = None
    /\ preRefresh = <<>>
    /\ spc = "idle"
    /\ sCall = idle
    /\ RerankUnused
    /\ ScoreUnused
    /\ ChunkUnused
    /\ HistUnused

\* RefreshLoad without the `if not documents: return` of lines 75-77
RefreshLoad_AlwaysResets ==
    /\ rpc = "idle"
    /\ clock <= MaxRefreshes
    /\ clock' = clock + 1
    /\ preRefresh' = collection
    /\ \E docs \in Loads :
        /\ documents' = docs
        /\ rpc' = "reset_delete" /\ refreshReturn' = None
    /\ docIdx' = 0
    /\ UNCHANGED <<clientVars, rerankVars, scoreVars, chunkVars, histVars, last_update_time, spc, sCall>>

\* refresh_vector_store is started by the scheduler (max_instances=1) and
\* _initialize_vector_store loads the documents, lines 73-77
RefreshLoad ==
    /\ rpc = "idle"
    /\ clock <= MaxRefreshes
    /\ clock' = clock + 1
    /\ preRefresh' = collection
    /\ \E docs \in Loads :
        /\ documents' = docs
        /\ IF docs = <<>>
           THEN rpc' = "idle" /\ refreshReturn' = Some(TRUE)
           ELSE rpc' = "reset_delete" /\ refreshReturn' = None
    /\ docIdx' = 0
    /\ UNCHANGED <<clientVars, rerankVars, scoreVars, chunkVars, histVars, last_update_time, spc, sCall>>

\* ChromaDBStore.reset, line 173: delete_collection
ResetDelete ==
    /\ rpc = "reset_delete"
    /\ \E fault \in {"none", "index"} :
        IF fault = "none"
        THEN /\ collection' = <<>>
             /\ collectionDeleted' = TRUE
             /\ rpc' = "reset_create"
             /\ UNCHANGED refreshReturn
        ELSE /\ rpc' = "idle"
             /\ refreshReturn' = Some(FALSE)
             /\ UNCHANGED <<collection, collectionDeleted>>
    /\ UNCHANGED <<enable_reranking, lastCall, rerankVars, scoreVars, chunkVars, histVars, documents, docIdx,
                   last_update_time, clock, preRefresh, spc, sCall>>

\* ChromaDBStore.reset, lines 174-177: get_or_create_collection
ResetCreate ==
    /\ rpc = "reset_create"
    /\ collection' = <<>>
    /\ collectionDeleted' = FALSE
    /\ rpc' = "add"
    /\ docIdx' = 1
    /\ UNCHANGED <<enable_reranking, lastCall, rerankVars, scoreVars, chunkVars, histVars, documents,
                   last_update_time, clock, refreshReturn, preRefresh, spc, sCall>>

\* _initialize_vector_store, lines 86-101: one iteration of the add loop
RefreshAdd ==
    /\ rpc = "add"
    /\ docIdx <= Len(documents)
    /\ \E fault \in Faults :
        LET doc == documents[docIdx]
            r == ClientAddDocument(collection, collectionDeleted, doc.content,
                                   FeishuMetadata, Some(doc.doc_id),
                                   fault # "embedding", fault # "index")
        IN  IF r.outcome = "ok"
            THEN /\ collection' = r.coll
                 /\ docIdx' = docIdx + 1
                 /\ UNCHANGED <<rpc, refreshReturn>>
            ELSE /\ rpc' = "idle"
                 /\ refreshReturn' = Some(FALSE)
                 /\ UNCHANGED <<collection, docIdx>>
    /\ UNCHANGED <<collectionDeleted, enable_reranking, lastCall, rerankVars, scoreVars, chunkVars, histVars,
                   documents, last_update_time, clock, preRefresh, spc, sCall>>

\* _initialize_vector_store, lines 103-105, and refresh_vector_store returns True
RefreshFinish ==
    /\ rpc = "add"
    /\ docIdx > Len(documents)
    /\ last_update_time' = clock
    /\ refreshReturn' = Some(TRUE)
    /\ rpc' = "idle"
    /\ UNCHANGED <<clientVars, rerankVars, scoreVars, chunkVars, histVars, documents, docIdx, clock, preRefresh,
                   spc, sCall>>

\* reader: RealTimeFeishuRAG.search is called; RAGClient.search validates the
\* query and embeds it, lines 213-223
ReaderSearchBegin ==
    /\ spc = "idle"
    /\ \E query \in ReaderQueries, limit \in 1..MaxLimit :
        sCall' = [op |-> "search", query |-> query, limit |-> limit]
    /\ spc' = "query"
    /\ UNCHANGED <<clientVars, rerankVars, scoreVars, chunkVars, histVars, rpc, documents, docIdx,
                   last_update_time, clock, refreshReturn, preRefresh>>

\* reader: the vector store is queried, the answer re-ranked and returned
ReaderSearchQuery ==
    /\ spc = "query"
    /\ LET r == RealTimeSearch(collection, collectionDeleted, enable_reranking,
                               sCall.query, sCall.limit)
       IN  sCall' = [op |-> "search", query |-> sCall.query, limit |-> sCall.limit,
                     result |-> r.result, raised |-> r.raised,
                     sawDeleted |-> r.sawDeleted,
                     duringRefresh |-> rpc # "idle",
                     pre |-> IF rpc # "idle" THEN preRefresh ELSE collection,
                     post |-> IF rpc # "idle" THEN AddAll(<<>>, documents)
                              ELSE collection]
    /\ spc' = "done"
    /\ UNCHANGED <<clientVars, rerankVars, scoreVars, chunkVars, histVars, rpc, documents, docIdx,
                   last_update_time, clock, refreshReturn, preRefresh>>

\* reader: RAGClient.document_count -> collection.count()
ReaderDocumentCount ==
    /\ spc = "idle"
    /\ sCall' = [op |-> "document_count",
                 result |-> IF collectionDeleted THEN None ELSE Some(Len(collection)),
                 raised |-> collectionDeleted,
                 sawDeleted |-> collectionDeleted,
                 duringRefresh |-> rpc # "idle"]
    /\ spc' = "done"
    /\ UNCHANGED <<clientVars, rerankVars, scoreVars, chunkVars, histVars, rpc, documents, docIdx,
                   last_update_time, clock, refreshReturn, preRefresh>>

\* reader: the call has returned
ReaderReturn ==
    /\ spc = "done"
    /\ spc' = "idle"
    /\ sCall' = idle
    /\ UNCHANGED <<clientVars, rerankVars, scoreVars, chunkVars, histVars, rpc, documents, docIdx,
                   last_update_time, clock, refreshReturn, preRefresh>>

NextRefresh ==
    \/ RefreshLoad
    \/ ResetDelete
    \/ ResetCreate
    \/ RefreshAdd
    \/ RefreshFinish
    \/ ReaderSearchBegin
    \/ ReaderSearchQuery
    \/ ReaderDocumentCount
    \/ ReaderReturn

SpecRefresh == InitRefresh /\ [][NextRefresh]_vars

\* C1: a search running concurrently with a refresh returns results drawn
\* from the complete pre-refresh document set or from the complete
\* post-refresh document set, never from an empty or partly repopulated
\* collection.
C1_RefreshExclusive ==
    (spc = "done" /\ sCall.op = "search" /\ sCall.duringRefresh) =>
        \/ sCall.result = RealTimeSearch(sCall.pre, FALSE, enable_reranking,
                                         sCall.query, sCall.limit).result
        \/ sCall.result = RealTimeSearch(sCall.post, FALSE, enable_reranking,
                                         sCall.query, sCall.limit).result

\* C2: no client call interleaved with reset observes the state in which the
\* backing collection has been deleted and not yet recreated.
C2_ResetAtomic ==
    spc = "done" => ~sCall.sawDeleted

-----------------------------------------------------------------------------
(* SpecScore: the Reranker's scoring functions applied to bounded inputs *)

ScoreQueries ==
    {<<>>, <<" ">>, <<"\t">>, <<"\n">>, <<"a">>, <<"a", "b">>, <<"a", " ", "b">>,
     <<"a", "\t">>}

\* content lengths around the corners of _length_score
ScoreLengths == {0, 1, 60, 199, 200, 201, 499, 500, 501, 999, 1000, 1001, 3000}

ScoreContents ==
    {Rep("a", n) : n \in ScoreLengths} \cup
    {<<"b">>, <<"a", "b">>, <<"a", " ", "b">>, <<"a", "\t", "b">>, <<"\n">>}

\* the two candidates of the length scenario: a 60-character document with
\* similarity 0.9 before a 3000-character document with similarity 0.95
LengthPair(c1, c2) ==
    <<[doc_id |-> "short", content |-> Rep(c1, 60), metadata |-> None, score |-> 90],
      [doc_id |-> "long", content |-> Rep(c2, 3000), metadata |-> None, score |-> 95]>>

InitScore ==
    /\ scQuery \in ScoreQueries
    /\ scContent \in ScoreContents
    /\ scKw = 0
    /\ scLen = 0
    /\ scPair = <<>>
    /\ scRanked = <<>>
    /\ scPc = "input"
    /\ ClientUnused
    /\ RerankUnused
    /\ RefreshUnused
    /\ ChunkUnused
    /\ HistUnused

\* Reranker._keyword_overlap_score and Reranker._length_score on one candidate
ScoreContent ==
    /\ scPc = "input"
    /\ scKw' = [num |-> KeywordOverlapScore(scQuery, scContent), den |-> KwDen(scQuery)]
    /\ scLen' = LengthScore(scContent)
    /\ scPc' = "scored"
    /\ UNCHANGED <<scQuery, scContent, scPair, scRanked>>
    /\ UNCHANGED <<clientVars, rerankVars, refreshVars, chunkVars, histVars>>

\* Reranker.rerank(query, [short, long], top_k=1)
RerankPair ==
    /\ scPc = "scored"
    /\ \E c1, c2 \in {"a", "z"} :
        /\ scPair' = LengthPair(c1, c2)
        /\ scRanked' = Rerank(scQuery, LengthPair(c1, c2), 1).output
    /\ scPc' = "ranked"
    /\ UNCHANGED <<scQuery, scContent, scKw, scLen>>
    /\ UNCHANGED <<clientVars, rerankVars, refreshVars, chunkVars, histVars>>

NextScore ==
    \/ ScoreContent
    \/ RerankPair

SpecScore == InitScore /\ [][NextScore]_vars

\* s with every whitespace character removed
NoWhitespace(s) == SelectSeq(s, LAMBDA c : c \notin Whitespace)

\* C11: the keyword overlap is |chars(query) \cap chars(content)| / |chars(query)|
\* taken after whitespace removal, lies in [0, 1], and is 0 whenever the query
\* has no character left after whitespace removal (tabs and newlines included).
C11_KeywordOverlap ==
    scPc \in {"scored", "ranked"} =>
        LET qc == CharSet(NoWhitespace(scQuery))
            cc == CharSet(NoWhitespace(scContent))
        IN  /\ 0 <= scKw.num /\ scKw.num <= scKw.den
            /\ IF qc = {} THEN scKw.num = 0
               ELSE scKw.num * Cardinality(qc) = Cardinality(qc \cap cc) * scKw.den

\* C12: the length score is 1.0 on [200, 500], length/200 below, and
\* max(0.5, 1.0 - (length - 500)/1000) above; it lies in [0, 1], meets 1.0 from
\* both sides at 200 and at 500, is below 0.6 at 3000 characters; and reranking
\* the 60-character (0.9) and 3000-character (0.95) candidates with top_k = 1
\* returns the candidate whose blended score is highest, whatever the raw order.
C12_LengthScore ==
    /\ scPc \in {"scored", "ranked"} =>
        LET n == Len(scContent)
        IN  /\ (200 <= n /\ n <= 500) => scLen = 1000
            /\ n < 200 => 200 * scLen = 1000 * n
            /\ n > 500 => /\ 1000 - (n - 500) >= 500 => scLen = 1000 - (n - 500)
                          /\ 1000 - (n - 500) < 500 => scLen = 500
            /\ 0 <= scLen /\ scLen <= 1000
            /\ n = 199 => 1000 - scLen <= 5
            /\ n = 501 => 1000 - scLen <= 1
            /\ n = 3000 => scLen < 600
    /\ scPc = "ranked" =>
        /\ Len(scRanked) = 1
        /\ \E i \in 1..2 :
            /\ scRanked[1].doc_id = scPair[i].doc_id
            /\ scRanked[1].rerank_score = CalculateRelevanceScore(scQuery, scPair[i])
            /\ \A j \in 1..2 : CalculateRelevanceScore(scQuery, scPair[j])
                                   <= CalculateRelevanceScore(scQuery, scPair[i])

\* C12 witness: a 3000-character content was scored, and the shorter candidate
\* with the lower raw similarity was returned ahead of the longer one
C12_Witness ==
    /\ scPc = "ranked"
    /\ Len(scContent) = 3000 /\ scLen = 500
    /\ scRanked[1].doc_id = "short"
    /\ scPair[1].score < scPair[2].score

-----------------------------------------------------------------------------
(* DocumentLoader (src/src/rag/document_loader.py)                          *)
(*                                                                          *)
(* Strings of the model are ASCII: the full-width sentence terminators of   *)
(* the split pattern are written ".", "!", "?" and ";", and the CJK opening *)
(* quotation mark is written "[".                                           *)

DefaultChunkSize == 300
DefaultOverlap == 50

\* the delimiter class of re.split in _chunk_by_sentences
SentenceDelims == {".", "!", "?", ";", "\n"}

\* the characters that make a line a dialogue line in _chunk_smart
QuoteMarks == {"\"", "["}

\* a line shorter than this is a short line in _chunk_smart
ShortLineLen == 100

\* the elements of s at the indices in keep, in order
Pick(s, keep) ==
    LET nth(p) == CHOOSE i \in keep : Cardinality({j \in keep : j < i}) = p - 1
    IN  [p \in 1..Cardinality(keep) |-> s[nth(p)]]

\* content.replace("\r\n", "\n").replace("\r", "\n")
NormalizeNewlines(s) ==
    LET keep == {i \in 1..Len(s) : ~(s[i] = "\r" /\ i < Len(s) /\ s[i + 1] = "\n")}
        kept == Pick(s, keep)
    IN  [i \in 1..Len(kept) |-> IF kept[i] = "\r" THEN "\n" ELSE kept[i]]

\* the non-empty pieces of re.split('[delims]+', s) and of s.split('\n'):
\* the maximal runs of characters outside delims, in order
Runs(s, delims) ==
    LET n == Len(s)
        starts == {i \in 1..n : s[i] \notin delims /\ (i = 1 \/ s[i - 1] \in delims)}
        endOf(i) == CHOOSE j \in i..n : /\ \A k \in i..j : s[k] \notin delims
                                        /\ (j = n \/ s[j + 1] \in delims)
        first == Pick([i \in 1..n |-> i], starts)
    IN  [p \in 1..Len(first) |-> SubSeq(s, first[p], endOf(first[p]))]

\* [x.strip() for x in pieces if x.strip()]
StripAll(pieces) ==
    SelectSeq([i \in 1..Len(pieces) |-> Strip(pieces[i])], LAMBDA x : x # <<>>)

\* _chunk_by_sentences, lines 59-60
SplitSentences(content) == StripAll(Runs(content, SentenceDelims))

\* _chunk_smart, lines 140-141
SplitLines(content) == StripAll(Runs(content, {"\n"}))

\* sep.join(parts)
RECURSIVE Join(_, _)
Join(parts, sep) ==
    IF parts = <<>> THEN <<>>
    ELSE IF Len(parts) = 1 THEN parts[1]
    ELSE parts[1] \o sep \o Join(Tail(parts), sep)

\* if current_chunk: chunks.append(sep.join(current_chunk))
Flush(chunks, current_chunk, sep) ==
    IF current_chunk # <<>> THEN Append(chunks, Join(current_chunk, sep)) ELSE chunks

\* the state of a chunking loop before its first iteration
LoopStart == [chunks |-> <<>>, current_chunk |-> <<>>, current_size |-> 0]

\* SentenceStep closing the chunk as soon as it would be full: `>=` at line 79
SentenceStep_CloseWhenFull(st, sentence, target_size) ==
    LET sentence_len == Len(sentence)
    IN  IF sentence_len > target_size
        THEN [chunks |-> Append(Flush(st.chunks, st.current_chunk, <<>>), sentence),
              current_chunk |-> <<>>, current_size |-> 0]
        ELSE IF st.current_size + sentence_len >= target_size /\ st.current_chunk # <<>>
        THEN [chunks |-> Append(st.chunks, Join(st.current_chunk, <<>>)),
              current_chunk |-> <<sentence>>, current_size |-> sentence_len]
        ELSE [chunks |-> st.chunks,
              current_chunk |-> Append(st.current_chunk, sentence),
              current_size |-> st.current_size + sentence_len]

\* _chunk_by_sentences, lines 66-85: one iteration of the sentence loop
SentenceStep(st, sentence, target_size) ==
    LET sentence_len == Len(sentence)
    IN  IF sentence_len > target_size
        THEN [chunks |-> Append(Flush(st.chunks, st.current_chunk, <<>>), sentence),
              current_chunk |-> <<>>, current_size |-> 0]
        ELSE IF st.current_size + sentence_len > target_size /\ st.current_chunk # <<>>
        THEN [chunks |-> Append(st.chunks, Join(st.current_chunk, <<>>)),
              current_chunk |-> <<sentence>>, current_size |-> sentence_len]
        ELSE [chunks |-> st.chunks,
              current_chunk |-> Append(st.current_chunk, sentence),
              current_size |-> st.current_size + sentence_len]

RECURSIVE SentenceLoop(_, _, _)
SentenceLoop(st, sentences, target_size) ==
    IF sentences = <<>> THEN st
    ELSE SentenceLoop(SentenceStep(st, Head(sentences), target_size),
                      Tail(sentences), target_size)

\* ChunkBySentences without the final flush of lines 87-89
ChunkBySentences_NoFinalFlush(content, target_size) ==
    SentenceLoop(LoopStart, SplitSentences(content), target_size).chunks

\* DocumentLoader._chunk_by_sentences
ChunkBySentences(content, target_size) ==
    LET st == SentenceLoop(LoopStart, SplitSentences(content), target_size)
    IN  Flush(st.chunks, st.current_chunk, <<>>)

\* '"' in line or '"' in line or '[' in line
IsDialogue(line) == \E i \in 1..Len(line) : line[i] \in QuoteMarks

\* SmartStep with the 30% test of line 175 made a 50% test
SmartStep_HalfThreshold(st, line, target_size) ==
    LET line_len == Len(line)
        flushNew == [chunks |-> Append(st.chunks, Join(st.current_chunk, <<"\n">>)),
                     current_chunk |-> <<line>>, current_size |-> line_len]
        append == [chunks |-> st.chunks,
                   current_chunk |-> Append(st.current_chunk, line),
                   current_size |-> st.current_size + line_len]
    IN  IF 2 * line_len > 3 * target_size
        THEN [chunks |-> Flush(st.chunks, st.current_chunk, <<"\n">>)
                             \o ChunkBySentences(line, target_size),
              current_chunk |-> <<>>, current_size |-> 0]
        ELSE IF st.current_size + line_len > target_size /\ st.current_chunk # <<>>
        THEN LET is_short_line == line_len < ShortLineLen
                 is_dialogue == IsDialogue(line)
             IN  IF is_short_line /\ is_dialogue /\ 2 * st.current_size > target_size
                 THEN flushNew
                 ELSE IF 2 * st.current_size > target_size
                 THEN flushNew
                 ELSE append
        ELSE append

\* _chunk_smart, lines 147-187: one iteration of the line loop
\* (x > target_size * 1.5, * 0.5 and * 0.3 compared in integers)
SmartStep(st, line, target_size) ==
    LET line_len == Len(line)
        flushNew == [chunks |-> Append(st.chunks, Join(st.current_chunk, <<"\n">>)),
                     current_chunk |-> <<line>>, current_size |-> line_len]
        append == [chunks |-> st.chunks,
                   current_chunk |-> Append(st.current_chunk, line),
                   current_size |-> st.current_size + line_len]
    IN  IF 2 * line_len > 3 * target_size
        THEN [chunks |-> Flush(st.chunks, st.current_chunk, <<"\n">>)
                             \o ChunkBySentences(line, target_size),
              current_chunk |-> <<>>, current_size |-> 0]
        ELSE IF st.current_size + line_len > target_size /\ st.current_chunk # <<>>
        THEN LET is_short_line == line_len < ShortLineLen
                 is_dialogue == IsDialogue(line)
             IN  IF is_short_line /\ is_dialogue /\ 2 * st.current_size > target_size
                 THEN flushNew
                 ELSE IF 10 * st.current_size > 3 * target_size
                 THEN flushNew
                 ELSE append
        ELSE append

\* re.sub(r'\s+', ' ', content.strip())
NormalizeSpace(content) ==
    LET s == Strip(content)
        keep == {i \in 1..Len(s) : s[i] \notin Whitespace \/ i = 1
                                      \/ s[i - 1] \notin Whitespace}
        kept == Pick(s, keep)
    IN  [i \in 1..Len(kept) |-> IF kept[i] \in Whitespace THEN " " ELSE kept[i]]

\* PySlice with an inclusive end: s[start:end + 1]
PySlice_Inclusive(s, start, end) ==
    LET n == Len(s)
        clamp(i) == IF i < 0 THEN Max2(i + n, 0) ELSE Min2(i, n)
    IN  SubSeq(s, clamp(start) + 1, clamp(end + 1))

\* s[start:end] with Python's treatment of negative and oversized indices
PySlice(s, start, end) ==
    LET n == Len(s)
        clamp(i) == IF i < 0 THEN Max2(i + n, 0) ELSE Min2(i, n)
    IN  SubSeq(s, clamp(start) + 1, clamp(end))

\* FixedNextStart skipping one character between windows without overlap
FixedNextStart_Skip(start, chunk_size, overlap) ==
    LET end == start + chunk_size
    IN  IF overlap > 0 THEN end - overlap ELSE end + 1

\* _chunk_by_fixed_size, line 120: start = end - overlap if overlap > 0 else end
FixedNextStart(start, chunk_size, overlap) ==
    LET end == start + chunk_size
    IN  IF overlap > 0 THEN end - overlap ELSE end

-----------------------------------------------------------------------------
(* SpecChunk: DocumentLoader.load_file on bounded texts *)

MaxText == 3          \* length of the exhaustively enumerated texts
MaxIter == 5          \* iterations of the fixed-size loop that are followed

Alphabet == {"a", "\"", ".", "\n", " "}

ShortTexts == UNION {[1..n -> Alphabet] : n \in 0..MaxText}

ChunkSizes == {-1, 0, 1, 2, 3}
Overlaps == {0, 1, 2}

ChunkCall(text, strategy, chunk_size, overlap) ==
    [text |-> text, strategy |-> strategy, chunk_size |-> chunk_size,
     overlap |-> overlap]

ShortConfigs ==
    {ChunkCall(<<>>, s, c, DefaultOverlap) : s \in {"sentences", "smart"}, c \in ChunkSizes}
    \cup {ChunkCall(<<>>, "fixed_size", c, o) : c \in ChunkSizes, o \in Overlaps}
    \cup {ChunkCall(<<>>, "pages", DefaultChunkSize, DefaultOverlap)}

\* four sentences of five characters, as in test_chinese_sentence_split
TestSentenceText ==
    Rep("1", 5) \o <<".">> \o Rep("2", 5) \o <<"!">> \o Rep("3", 5) \o <<"?">>
        \o Rep("4", 5)

\* longer texts: several sentences, dialogue lines, long lines, carriage returns
ExtraCalls ==
    {ChunkCall(TestSentenceText, "sentences", 10, DefaultOverlap),
     ChunkCall(TestSentenceText, "sentences", DefaultChunkSize, DefaultOverlap),
     ChunkCall(TestSentenceText, "smart", 10, DefaultOverlap),
     ChunkCall(<<"a", ".", "a", ".", "a">>, "sentences", 2, DefaultOverlap),
     ChunkCall(<<"a", "a", ".", "a", ";", "a">>, "sentences", 2, DefaultOverlap),
     ChunkCall(<<"a", "\r", "\n", "\"", "\r", "a">>, "sentences", 1, DefaultOverlap),
     ChunkCall(<<"a", "\r", "\n", "\"", "\r", "a">>, "smart", 1, DefaultOverlap),
     ChunkCall(<<"a", "\n", "\"", "a", "a", "a">>, "smart", 4, DefaultOverlap),
     ChunkCall(<<"a", "a", "\n", "\"", "a", "a">>, "smart", 4, DefaultOverlap),
     ChunkCall(<<"a", "a", "a", "\n", "[", "a", "a">>, "smart", 4, DefaultOverlap),
     ChunkCall(<<"a", "\n", "a", "a", "a", "a">>, "smart", 4, DefaultOverlap),
     ChunkCall(<<"a", "a", "\n", "a", "a", "a">>, "smart", 4, DefaultOverlap),
     ChunkCall(<<"a", "\n", "\"", "a", ".", "a", "a", ".", "a">>, "smart", 2, DefaultOverlap),
     ChunkCall(<<"a", "\"", " ", "\n", "a", "a">>, "fixed_size", 3, 1),
     ChunkCall(<<"a", "\"", " ", "a", "a">>, "fixed_size", 2, 0)}

ChunkCalls ==
    {ChunkCall(t, c.strategy, c.chunk_size, c.overlap) : t \in ShortTexts, c \in ShortConfigs}
    \cup ExtraCalls

InitChunk ==
    /\ \E call \in ChunkCalls :
        /\ ckContent = call.text
        /\ ckStrategy = call.strategy
        /\ ckSize = call.chunk_size
        /\ ckOverlap = call.overlap
    /\ ckPc = "call"
    /\ ckItems = <<>>
    /\ ckIdx = 0
    /\ ckCur = <<>>
    /\ ckCurSize = 0
    /\ ckChunks = <<>>
    /\ ckIter = 0
    /\ ClientUnused
    /\ RerankUnused
    /\ RefreshUnused
    /\ ScoreUnused
    /\ HistUnused

ChunkLoopState == [chunks |-> ckChunks, current_chunk |-> ckCur, current_size |-> ckCurSize]

\* DocumentLoader.load_file: normalise line endings and enter the strategy
LoadFile ==
    /\ ckPc = "call"
    /\ LET content == NormalizeNewlines(ckContent)
       IN  CASE ckStrategy = "sentences" ->
                    /\ ckItems' = SplitSentences(content)
                    /\ ckIdx' = 1
                    /\ ckPc' = "sentences"
             [] ckStrategy = "fixed_size" ->
                    /\ ckItems' = NormalizeSpace(content)
                    /\ ckIdx' = 0
                    /\ ckPc' = "fixed_size"
             [] ckStrategy = "smart" ->
                    /\ ckItems' = SplitLines(content)
                    /\ ckIdx' = 1
                    /\ ckPc' = "smart"
             [] OTHER ->
                    /\ ckPc' = "error"
                    /\ UNCHANGED <<ckItems, ckIdx>>
    /\ UNCHANGED <<ckContent, ckStrategy, ckSize, ckOverlap, ckCur, ckCurSize,
                   ckChunks, ckIter>>
    /\ UNCHANGED <<clientVars, rerankVars, refreshVars, scoreVars, histVars>>

\* _chunk_by_sentences: one iteration of `for sentence in sentences`
SentenceIter ==
    /\ ckPc = "sentences"
    /\ ckIdx <= Len(ckItems)
    /\ LET st == SentenceStep(ChunkLoopState, ckItems[ckIdx], ckSize)
       IN  /\ ckChunks' = st.chunks
           /\ ckCur' = st.current_chunk
           /\ ckCurSize' = st.current_size
    /\ ckIdx' = ckIdx + 1
    /\ UNCHANGED <<ckContent, ckStrategy, ckSize, ckOverlap, ckPc, ckItems, ckIter>>
    /\ UNCHANGED <<clientVars, rerankVars, refreshVars, scoreVars, histVars>>

\* _chunk_by_sentences, lines 87-91: add the remaining chunk and return
SentenceReturn ==
    /\ ckPc = "sentences"
    /\ ckIdx > Len(ckItems)
    /\ ckChunks' = Flush(ckChunks, ckCur, <<>>)
    /\ ckPc' = "done"
    /\ UNCHANGED <<ckContent, ckStrategy, ckSize, ckOverlap, ckItems, ckIdx, ckCur,
                   ckCurSize, ckIter>>
    /\ UNCHANGED <<clientVars, rerankVars, refreshVars, scoreVars, histVars>>

\* _chunk_by_fixed_size: one iteration of `while start < content_len`
FixedIter ==
    /\ ckPc = "fixed_size"
    /\ ckIdx < Len(ckItems)
    /\ ckIter < MaxIter
    /\ LET end == ckIdx + ckSize
           chunk == Strip(PySlice(ckItems, ckIdx, end))
       IN  ckChunks' = IF chunk # <<>> THEN Append(ckChunks, chunk) ELSE ckChunks
    /\ ckIdx' = FixedNextStart(ckIdx, ckSize, ckOverlap)
    /\ ckIter' = ckIter + 1
    /\ UNCHANGED <<ckContent, ckStrategy, ckSize, ckOverlap, ckPc, ckItems, ckCur,
                   ckCurSize>>
    /\ UNCHANGED <<clientVars, rerankVars, refreshVars, scoreVars, histVars>>

\* _chunk_by_fixed_size, line 122: the loop condition is false, return chunks
FixedReturn ==
    /\ ckPc = "fixed_size"
    /\ ckIdx >= Len(ckItems)
    /\ ckPc' = "done"
    /\ UNCHANGED <<ckContent, ckStrategy, ckSize, ckOverlap, ckItems, ckIdx, ckCur,
                   ckCurSize, ckChunks, ckIter>>
    /\ UNCHANGED <<clientVars, rerankVars, refreshVars, scoreVars, histVars>>

\* _chunk_smart: one iteration of `for line in lines`
SmartIter ==
    /\ ckPc = "smart"
    /\ ckIdx <= Len(ckItems)
    /\ LET st == SmartStep(ChunkLoopState, ckItems[ckIdx], ckSize)
       IN  /\ ckChunks' = st.chunks
           /\ ckCur' = st.current_chunk
           /\ ckCurSize' = st.current_size
    /\ ckIdx' = ckIdx + 1
    /\ UNCHANGED <<ckContent, ckStrategy, ckSize, ckOverlap, ckPc, ckItems, ckIter>>
    /\ UNCHANGED <<clientVars, rerankVars, refreshVars, scoreVars, histVars>>

\* _chunk_smart, lines 189-193: add the remaining chunk and return
SmartReturn ==
    /\ ckPc = "smart"
    /\ ckIdx > Len(ckItems)
    /\ ckChunks' = Flush(ckChunks, ckCur, <<"\n">>)
    /\ ckPc' = "done"
    /\ UNCHANGED <<ckContent, ckStrategy, ckSize, ckOverlap, ckItems, ckIdx, ckCur,
                   ckCurSize, ckIter>>
    /\ UNCHANGED <<clientVars, rerankVars, refreshVars, scoreVars, histVars>>

NextChunk ==
    \/ LoadFile
    \/ SentenceIter
    \/ SentenceReturn
    \/ FixedIter
    \/ FixedReturn
    \/ SmartIter
    \/ SmartReturn

SpecChunk == InitChunk /\ [][NextChunk]_vars

-----------------------------------------------------------------------------
(* Claims about the sentence strategy *)

SentencesRunning == ckPc = "sentences" \/ (ckPc = "done" /\ ckStrategy = "sentences")

Returned(strategy) == ckPc = "done" /\ ckStrategy = strategy

\* the text without sentence delimiters and whitespace
Essence(s) ==
    SelectSeq(s, LAMBDA c : c \notin SentenceDelims \cup Whitespace \cup {"\r"})

C14_FourSentences ==
    (/\ Returned("sentences")
     /\ ckContent = TestSentenceText
     /\ ckSize \in {10, DefaultChunkSize}) =>
        /\ Len(ckChunks) >= 3
        /\ \A k \in 1..Len(ckChunks) : ckChunks[k] # <<>>
        /\ Join(ckChunks, <<>>) = Rep("1", 5) \o Rep("2", 5) \o Rep("3", 5) \o Rep("4", 5)

\* C15: for the sentence and smart strategies, every text of length >= 1 and
\* every target_size > 0, the chunks concatenated and stripped of delimiters
\* and whitespace equal the text stripped of delimiters and whitespace.
C15_RoundTrip ==
    (/\ Returned("sentences") \/ Returned("smart")
     /\ Len(ckContent) >= 1
     /\ ckSize > 0) =>
        Essence(Join(ckChunks, <<>>)) = Essence(ckContent)

\* C15 witness: a smart run that flushed its accumulator and split a long line
\* by sentences
C15_Witness ==
    /\ Returned("smart")
    /\ ckSize > 0
    /\ Len(ckItems) = 2
    /\ 2 * Len(ckItems[2]) > 3 * ckSize
    /\ Len(ckChunks) = 4
    /\ ckChunks[1] = ckItems[1]

-----------------------------------------------------------------------------
(* Claims about the fixed-size strategy and about every strategy *)

\* a occurs in b as a subsequence
RECURSIVE IsSubseq(_, _)
IsSubseq(a, b) ==
    IF a = <<>> THEN TRUE
    ELSE IF b = <<>> THEN FALSE
    ELSE IF Head(a) = Head(b) THEN IsSubseq(Tail(a), Tail(b))
    ELSE IsSubseq(a, Tail(b))

\* C16 as stated: for the fixed_size strategy, every text of length >= 1,
\* every target_size > 0 and every overlap with 0 <= overlap < target_size, the
\* chunks concatenated and stripped of whitespace equal the text stripped of
\* whitespace: no character is dropped or duplicated.
C16_FixedRoundTrip ==
    (/\ Returned("fixed_size")
     /\ Len(ckContent) >= 1
     /\ ckSize > 0
     /\ 0 <= ckOverlap /\ ckOverlap < ckSize) =>
        NoWhitespace(Join(ckChunks, <<>>)) = NoWhitespace(ckContent)

\* C16 amended: the equality holds for overlap = 0; for 0 < overlap <
\* target_size no character is dropped (the stripped text is a subsequence of
\* the stripped concatenation), but characters in the overlap are repeated.
C16_FixedRoundTripNoOverlap ==
    (/\ Returned("fixed_size")
     /\ Len(ckContent) >= 1
     /\ ckSize > 0
     /\ 0 <= ckOverlap /\ ckOverlap < ckSize) =>
        IF ckOverlap = 0
        THEN NoWhitespace(Join(ckChunks, <<>>)) = NoWhitespace(ckContent)
        ELSE IsSubseq(NoWhitespace(ckContent), NoWhitespace(Join(ckChunks, <<>>)))

\* C16 witness: a text with whitespace was cut into several windows without
\* overlap
C16_Witness ==
    /\ Returned("fixed_size")
    /\ ckSize > 0 /\ ckOverlap = 0
    /\ Len(ckChunks) >= 2
    /\ NoWhitespace(ckContent) # ckContent
    /\ NoWhitespace(ckContent) # <<>>

\* C17: the fixed_size strategy terminates for every text, every
\* target_size > 0 and every overlap >= 0, overlap >= target_size included:
\* every iteration of its loop moves `start` forward, towards content_len.
C17_FixedSizeTerminates ==
    [][(FixedIter /\ ckSize > 0 /\ ckOverlap >= 0) => ckIdx' > ckIdx]_vars

\* C18: with target_size <= 0 chunking a text fails with an invalid-argument
\* error for every strategy: no loop is entered and no chunk list is produced.
C18_NonPositiveSizeRejected ==
    (/\ ckSize <= 0
     /\ Len(ckContent) >= 1
     /\ ckStrategy \in {"sentences", "fixed_size", "smart"}
     /\ ckPc # "call") =>
        /\ ckPc = "error"
        /\ ckChunks = <<>>

\* C19: for every strategy and every text of length >= 1, texts made only of
\* delimiters, newlines or whitespace included, the returned list is non-empty
\* and every chunk is non-empty without leading or trailing whitespace.
C19_NonEmptyTrimmedChunks ==
    (/\ ckPc = "done"
     /\ Len(ckContent) >= 1
     /\ ckSize > 0) =>
        /\ ckChunks # <<>>
        /\ \A k \in 1..Len(ckChunks) :
            /\ ckChunks[k] # <<>>
            /\ Strip(ckChunks[k]) = ckChunks[k]

-----------------------------------------------------------------------------
(* Claims about the smart strategy *)

\* the next line is not a long line, the accumulator is non-empty, adding the
\* line would overflow target_size, and the line is a short dialogue line
DialogueOverflow ==
    /\ SmartIter
    /\ 2 * Len(ckItems[ckIdx]) <= 3 * ckSize
    /\ ckCur # <<>>
    /\ Len(Join(ckCur, <<>>)) + Len(ckItems[ckIdx]) > ckSize
    /\ Len(ckItems[ckIdx]) < 100
    /\ IsDialogue(ckItems[ckIdx])

FlushedAndAlone ==
    /\ ckChunks' = Append(ckChunks, Join(ckCur, <<"\n">>))
    /\ ckCur' = <<ckItems[ckIdx]>>

\* C20 as stated: a short dialogue line that would overflow a non-empty
\* accumulator flushes the accumulator and starts a new chunk alone, however
\* much the accumulator holds.
C20_DialogueAlwaysFlushed ==
    [][DialogueOverflow => FlushedAndAlone]_vars

\* C20 amended: it does so when the accumulator holds more than 30% of
\* target_size; when the accumulator holds 30% of target_size or less the line
\* is appended to the accumulator.
C20_DialogueFlushedAboveThreshold ==
    [][DialogueOverflow =>
        IF 10 * Len(Join(ckCur, <<>>)) > 3 * ckSize
        THEN FlushedAndAlone
        ELSE ckChunks' = ckChunks /\ ckCur' = Append(ckCur, ckItems[ckIdx])]_vars

\* C20 witness: a dialogue line that would have overflowed the accumulator
\* has just started a chunk of its own
C20_Witness ==
    /\ ckPc = "smart"
    /\ ckIdx > 1
    /\ ckChunks # <<>>
    /\ LET line == ckItems[ckIdx - 1]
           flushed == ckChunks[Len(ckChunks)]
       IN  /\ IsDialogue(line)
           /\ 2 * Len(line) <= 3 * ckSize
           /\ ckCur = <<line>>
           /\ flushed = ckItems[ckIdx - 2]
           /\ Len(flushed) + Len(line) > ckSize

\* C21: every chunk returned by the fixed_size strategy is at most
\* target_size long, for every text, target_size > 0 and overlap for which
\* the call returns.
C21_FixedSizeBound ==
    (Returned("fixed_size") /\ ckSize > 0) =>
        \A k \in 1..Len(ckChunks) : Len(ckChunks[k]) <= ckSize

\* C21 witness: a returned run with several chunks, one of them a full window
C21_Witness ==
    /\ Returned("fixed_size")
    /\ ckSize > 0
    /\ Len(ckChunks) >= 2
    /\ Len(ckChunks[1]) = ckSize

-----------------------------------------------------------------------------
(* Further claims about the RAGClient, under Spec *)

\* a search call that passes argument validation and meets no failing collaborator
ValidSearch ==
    /\ lastCall.op = "search"
    /\ ~IsBlank(lastCall.query)
    /\ EffectiveLimit(lastCall.limit) >= 1
    /\ lastCall.fault = "none"

\* C22: the collection goes empty -> populated -> empty: after reset, whatever
\* calls preceded it, document_count is 0 and a search with a non-empty query
\* returns the empty list, not an error; the first successful add after that
\* makes the collection populated again.
C22_Lifecycle ==
    /\ [][Reset =>
            /\ collection' = <<>>
            /\ \A q \in {x \in Queries : ~IsBlank(x)}, l \in {y \in Limits : EffectiveLimit(y) >= 1},
                 opt \in SearchOptions :
                   LET r == ClientSearch(collection', collectionDeleted', enable_reranking',
                                         q, l, opt.score_threshold, opt.filter, TRUE, TRUE)
                   IN  r.outcome = "ok" /\ r.result = <<>>]_vars
    /\ [](lastCall.op = "reset" => collection = <<>> /\ ~collectionDeleted)
    /\ []((lastCall.op = "document_count" /\ lastCall.before = <<>>) =>
            lastCall.outcome = "ok" /\ lastCall.result = 0)
    /\ []((ValidSearch /\ lastCall.before = <<>>) =>
            lastCall.outcome = "ok" /\ lastCall.result = <<>>)
    /\ []((/\ lastCall.op \in {"add_document", "add_documents"}
           /\ lastCall.before = <<>>
           /\ lastCall.outcome = "ok"
           /\ lastCall.ids # <<>>) => collection # <<>>)

\* C22 witness: a populated collection has just been reset
C22_Witness ==
    /\ lastCall.op = "reset"
    /\ lastCall.before # <<>>
    /\ collection = <<>>

\* a call that got past its argument validation and reached the embedding step
ReachedEmbedding ==
    \/ lastCall.op = "search" /\ ~IsBlank(lastCall.query)
    \/ lastCall.op = "add_document" /\ ~IsBlank(lastCall.content)
    \/ lastCall.op = "add_documents" /\ lastCall.docs # <<>>

\* C23: search, add_document and add_documents retry nothing and swallow
\* nothing: a call embeds exactly once and calls the index at most once, a
\* failure of either collaborator reaches the caller as a failure, and the
\* index is not called when the embedding failed.
C23_NoRetryNoSwallow ==
    ReachedEmbedding =>
        /\ lastCall.encodeCalls = 1
        /\ lastCall.indexCalls <= 1
        /\ lastCall.fault = "embedding" =>
            /\ lastCall.outcome = "EmbeddingFailure"
            /\ lastCall.indexCalls = 0
            /\ collection = lastCall.before
        /\ lastCall.fault = "index" =>
            /\ lastCall.outcome = "IndexFailure"
            /\ lastCall.indexCalls = 1
            /\ collection = lastCall.before
        /\ lastCall.outcome = "ok" => lastCall.indexCalls = 1

\* C23 witness: an add_document call whose embedding call failed
C23_Witness ==
    /\ lastCall.op = "add_document"
    /\ ~IsBlank(lastCall.content)
    /\ lastCall.fault = "embedding"
    /\ lastCall.outcome = "EmbeddingFailure"

\* some element of the batch is empty or whitespace-only
HasBlank(docs) == \E i \in 1..Len(docs) : IsBlank(docs[i])

\* C24: empty or whitespace-only content is always rejected with an
\* invalid-argument error and never stored, by add_document and for every
\* element of an add_documents batch; on rejection neither collaborator is
\* called and the collection is unchanged.
C24_BlankContentRejected ==
    (/\ \/ lastCall.op = "add_document" /\ IsBlank(lastCall.content)
        \/ lastCall.op = "add_documents" /\ HasBlank(lastCall.docs)
     /\ lastCall.fault = "none") =>
        /\ lastCall.outcome = "ValueError"
        /\ lastCall.encodeCalls = 0
        /\ lastCall.indexCalls = 0
        /\ collection = lastCall.before

\* C25: search is read-only: whether it returns results or fails, the stored
\* records and document_count are the same after the call as before it, and
\* nothing changes them once the call has returned.
C25_SearchReadOnly ==
    /\ [][(lastCall = idle /\ lastCall'.op = "search") =>
              (collection' = collection /\ collectionDeleted' = collectionDeleted)]_vars
    /\ [](lastCall.op = "search" => collection = lastCall.before)
    /\ [][(lastCall.op = "search" /\ Return) => collection' = collection]_vars

\* C25 witness: a search on a populated collection returned results
C25_Witness ==
    /\ lastCall.op = "search"
    /\ lastCall.outcome = "ok"
    /\ lastCall.result # <<>>
    /\ collection = lastCall.before

-----------------------------------------------------------------------------
(* Further claims about refresh_vector_store, under SpecRefresh *)

\* refresh_vector_store has returned
RefreshReturned == rpc = "idle" /\ refreshReturn # None

\* C26: refresh_vector_store is all-or-nothing: when it has returned, True or
\* False, the collection holds either the complete document set it held before
\* the refresh or the complete newly loaded set, never nothing or a part; a
\* refresh that failed returned False and left last_update_time unchanged.
C26_RefreshAllOrNothing ==
    RefreshReturned =>
        /\ \/ collection = preRefresh
           \/ collection = AddAll(<<>>, documents)
        /\ ~collectionDeleted
        /\ refreshReturn = Some(FALSE) => last_update_time < clock

\* C27: when the loader returns no documents the refresh neither resets nor
\* writes: the collection and last_update_time are what they were before the
\* call, and refresh_vector_store returns True.
C27_EmptyLoadIsNoOp ==
    /\ [][(RefreshLoad /\ documents' = <<>>) =>
            /\ collection' = collection
            /\ collectionDeleted' = collectionDeleted
            /\ last_update_time' = last_update_time
            /\ refreshReturn' = Some(TRUE)
            /\ rpc' = "idle"]_vars
    /\ []((RefreshReturned /\ documents = <<>>) =>
            /\ collection = preRefresh
            /\ last_update_time < clock
            /\ refreshReturn = Some(TRUE))

\* C27 witness: a refresh of a populated collection found nothing to load
C27_Witness ==
    /\ RefreshReturned
    /\ documents = <<>>
    /\ clock > 1
    /\ collection # <<>>
    /\ last_update_time = 1

-----------------------------------------------------------------------------
(* ConversationManager: one JSON file per (platform, user_id) *)

\* The histories the callers use: two platforms, one user id each.
HistKeys == {<<"bilibili", "u1">>, <<"weibo", "u1">>}

\* Threads calling the shared ConversationManager.
Callers == {"t1", "t2"}

\* Bounds
MaxAdds == 2
MaxLatest == 3
MaxChats == 4

\* {"role": role, "content": content}
Message(role, content) == [role |-> role, content |-> content]

\* load_history: [] when the file is missing, the parsed list when it can
\* be read, [] again (after logging) when reading or parsing fails.
LoadHistory(files, key, readable) ==
    IF files[key] = <<>> \/ ~readable THEN <<>> ELSE files[key]

\* save_history: the file is rewritten with the whole list.
SaveHistory(files, key, history) == [files EXCEPT ![key] = history]

\* add_message run without interruption: load, append, save.
AddMessage(files, key, msg, readable) ==
    SaveHistory(files, key, Append(LoadHistory(files, key, readable), msg))

\* get_latest_messages returns everything whatever the limit
LatestMessages_All(history, limit) ==
    history

\* history[-limit:] if len(history) > limit else history
LatestMessages(history, limit) ==
    IF Len(history) > limit
    THEN PySlice(history, 0 - limit, Len(history))
    ELSE history

\* The last n elements of s (0 <= n <= Len(s)).
LastN(s, n) == SubSeq(s, Len(s) - n + 1, Len(s))

\* Number of positions of s holding m.
Count(s, m) == Cardinality({i \in DOMAIN s : s[i] = m})

InitHistFiles ==
    /\ histFiles = [k \in HistKeys |-> <<>>]
    /\ hPc = [t \in Callers |-> "idle"]
    /\ hLocal = [t \in Callers |-> idle]
    /\ hAdded = [k \in HistKeys |-> <<>>]
    /\ hDone = [t \in Callers |-> 0]
    /\ hObs = idle

-----------------------------------------------------------------------------
(* SpecHistory: two threads sharing one ConversationManager.  The file      *)
(* system is reliable here: every read and every write succeeds.            *)

InitHistory ==
    /\ ClientUnused
    /\ RerankUnused
    /\ RefreshUnused
    /\ ScoreUnused
    /\ ChunkUnused
    /\ InitHistFiles
    /\ cPc = "unused"
    /\ cCall = idle
    /\ cDone = 0

\* add_message, line 102: history = self.load_history(platform, user_id)
AddMessageLoad(t, key) ==
    /\ hObs = idle
    /\ hPc[t] = "idle"
    /\ hDone[t] < MaxAdds
    /\ hLocal' = [hLocal EXCEPT ![t] =
                    [op |-> "add_message", key |-> key,
                     msg |-> Message("user", t \o "-" \o ToString(hDone[t] + 1)),
                     history |-> LoadHistory(histFiles, key, TRUE)]]
    /\ hPc' = [hPc EXCEPT ![t] = "loaded"]
    /\ UNCHANGED <<histFiles, hAdded, hDone, hObs, cPc, cCall, cDone>>
    /\ UNCHANGED <<clientVars, rerankVars, refreshVars, scoreVars, chunkVars>>

\* add_message, lines 105-111: history.append(...); self.save_history(...)
AddMessageSave(t) ==
    /\ hObs = idle
    /\ hPc[t] = "loaded"
    /\ histFiles' = SaveHistory(histFiles, hLocal[t].key,
                                Append(hLocal[t].history, hLocal[t].msg))
    /\ hAdded' = [hAdded EXCEPT ![hLocal[t].key] =
                    Append(@, [by |-> t, msg |-> hLocal[t].msg])]
    /\ hDone' = [hDone EXCEPT ![t] = @ + 1]
    /\ hLocal' = [hLocal EXCEPT ![t] = idle]
    /\ hPc' = [hPc EXCEPT ![t] = "idle"]
    /\ UNCHANGED <<hObs, cPc, cCall, cDone>>
    /\ UNCHANGED <<clientVars, rerankVars, refreshVars, scoreVars, chunkVars>>

\* get_latest_messages(platform, user_id, limit)
GetLatestMessages(key, limit) ==
    /\ hObs = idle
    /\ hObs' = [op |-> "get_latest_messages", key |-> key, limit |-> limit,
                history |-> LoadHistory(histFiles, key, TRUE),
                result |-> LatestMessages(LoadHistory(histFiles, key, TRUE), limit)]
    /\ UNCHANGED <<histFiles, hPc, hLocal, hAdded, hDone, cPc, cCall, cDone>>
    /\ UNCHANGED <<clientVars, rerankVars, refreshVars, scoreVars, chunkVars>>

\* The caller of get_latest_messages takes the result.
HistReturn ==
    /\ hObs # idle
    /\ hObs' = idle
    /\ UNCHANGED <<histFiles, hPc, hLocal, hAdded, hDone, cPc, cCall, cDone>>
    /\ UNCHANGED <<clientVars, rerankVars, refreshVars, scoreVars, chunkVars>>

NextHistory ==
    \/ \E t \in Callers, key \in HistKeys : AddMessageLoad(t, key)
    \/ \E t \in Callers : AddMessageSave(t)
    \/ \E key \in HistKeys, limit \in 0..MaxLatest : GetLatestMessages(key, limit)
    \/ HistReturn

SpecHistory == InitHistory /\ [][NextHistory]_vars

\* No add_message call is in progress.
AllCallersIdle == \A t \in Callers : hPc[t] = "idle"

\* Claim C28: add_message never loses a message.  Once every add_message
\* call has returned, whatever the interleaving of their load and save
\* steps, the stored history of each (platform, user_id) holds every
\* message added to it exactly once, each caller's messages in the order
\* that caller added them, and nothing that was added to another history.
C28_NoLostMessage ==
    AllCallersIdle =>
        \A k \in HistKeys :
            /\ \A i \in DOMAIN hAdded[k] : Count(histFiles[k], hAdded[k][i].msg) = 1
            /\ \A i, j \in DOMAIN hAdded[k] :
                   (i < j /\ hAdded[k][i].by = hAdded[k][j].by) =>
                       \E a, b \in DOMAIN histFiles[k] :
                           /\ a < b
                           /\ histFiles[k][a] = hAdded[k][i].msg
                           /\ histFiles[k][b] = hAdded[k][j].msg
            /\ \A a \in DOMAIN histFiles[k] :
                   \E i \in DOMAIN hAdded[k] : hAdded[k][i].msg = histFiles[k][a]

\* Claim C30: for every limit >= 0, get_latest_messages returns the most
\* recent min(limit, len(history)) messages of the stored history in their
\* original order: never more than limit messages, and none when limit is 0.
C30_LatestMessages ==
    (hObs.op = "get_latest_messages") =>
        /\ hObs.result = LastN(hObs.history, Min2(hObs.limit, Len(hObs.history)))
        /\ Len(hObs.result) <= hObs.limit
        /\ (hObs.limit = 0 => hObs.result = <<>>)

-----------------------------------------------------------------------------
(* SpecChat: one caller of RAGChatService.chat, one call at a time.  The    *)
(* search, the LLM and the history file may each fail.  A save that fails   *)
(* leaves the file as it was.                                               *)

\* get_latest_messages(platform, user_id, limit=5) in chat
PromptLimit == 5

\* The history the chat calls use; the other history is never touched.
ChatKey == <<"bilibili", "u1">>

\* The context used when the search failed or found nothing.
NoDocsContext == <<"(no relevant documents found)">>

\* The reply when the LLM call raised e.
ErrorReply(e) == "Sorry, an error occurred while generating the answer: " \o e

\* The outcomes of rag_client.search as chat sees them.
SearchOutcomes == {"found", "nothing", "failed"}

\* Whether a read of the file may fail: only an existing file is opened.
Readable(files, key) == IF files[key] = <<>> THEN {TRUE} ELSE BOOLEAN

InitChat ==
    /\ ClientUnused
    /\ RerankUnused
    /\ RefreshUnused
    /\ ScoreUnused
    /\ ChunkUnused
    /\ InitHistFiles
    /\ cPc = "idle"
    /\ cCall = idle
    /\ cDone = 0

\* chat, lines 148-176: optional debug_search, then the search under
\* try/except and the placeholder context.
ChatSearch(use_history, debug, dbgOutcome, outcome) ==
    /\ cPc = "idle"
    /\ cDone < MaxChats
    /\ cCall' = [op |-> "chat", key |-> ChatKey,
                 message |-> "q" \o ToString(cDone + 1),
                 use_history |-> use_history, debug |-> debug,
                 search |-> outcome,
                 context |-> IF outcome = "found" THEN <<"doc">> ELSE NoDocsContext,
                 before |-> histFiles[ChatKey],
                 history |-> <<>>, llm |-> "none", reply |-> "",
                 faults |-> {}]
    /\ cPc' = IF debug /\ dbgOutcome = "failed" THEN "raised" ELSE "history"
    /\ UNCHANGED <<histFiles, hPc, hLocal, hAdded, hDone, hObs, cDone>>
    /\ UNCHANGED <<clientVars, rerankVars, refreshVars, scoreVars, chunkVars>>

\* chat, lines 178-184: the history for the prompt.
ChatHistory(readable) ==
    /\ cPc = "history"
    /\ cCall' = [cCall EXCEPT
                   !.history = IF cCall.use_history
                               THEN LatestMessages(
                                        LoadHistory(histFiles, cCall.key, readable),
                                        PromptLimit)
                               ELSE <<>>,
                   !.faults = IF cCall.use_history /\ ~readable
                              THEN @ \cup {"read"} ELSE @]
    /\ cPc' = "llm"
    /\ UNCHANGED <<histFiles, hPc, hLocal, hAdded, hDone, hObs, cDone>>
    /\ UNCHANGED <<clientVars, rerankVars, refreshVars, scoreVars, chunkVars>>

\* chat, lines 186-205: generate_with_history or generate, under try/except.
ChatLLM(llmOk) ==
    /\ cPc = "llm"
    /\ cCall' = [cCall EXCEPT
                   !.llm = IF llmOk THEN "ok" ELSE "failed",
                   !.reply = IF llmOk
                             THEN "a" \o ToString(cDone + 1)
                             ELSE ErrorReply("llm down")]
    /\ cPc' = "save_user"
    /\ UNCHANGED <<histFiles, hPc, hLocal, hAdded, hDone, hObs, cDone>>
    /\ UNCHANGED <<clientVars, rerankVars, refreshVars, scoreVars, chunkVars>>

\* chat, lines 208-214: add_message(role="user"); a failure of the save
\* leaves the try block, skipping the assistant message.
ChatSaveUser(readable, saveOk) ==
    /\ cPc = "save_user"
    /\ histFiles' = IF saveOk
                    THEN AddMessage(histFiles, cCall.key,
                                    Message("user", cCall.message), readable)
                    ELSE histFiles
    /\ cCall' = [cCall EXCEPT
                   !.faults = @ \cup (IF readable THEN {} ELSE {"load_user"})
                                \cup (IF saveOk THEN {} ELSE {"save_user"})]
    /\ cPc' = IF saveOk THEN "save_assistant" ELSE "return"
    /\ UNCHANGED <<hPc, hLocal, hAdded, hDone, hObs, cDone>>
    /\ UNCHANGED <<clientVars, rerankVars, refreshVars, scoreVars, chunkVars>>

\* chat, lines 215-223: add_message(role="assistant"); a failure is logged.
ChatSaveAssistant(readable, saveOk) ==
    /\ cPc = "save_assistant"
    /\ histFiles' = IF saveOk
                    THEN AddMessage(histFiles, cCall.key,
                                    Message("assistant", cCall.reply), readable)
                    ELSE histFiles
    /\ cCall' = [cCall EXCEPT
                   !.faults = @ \cup (IF readable THEN {} ELSE {"load_assistant"})
                                \cup (IF saveOk THEN {} ELSE {"save_assistant"})]
    /\ cPc' = "return"
    /\ UNCHANGED <<hPc, hLocal, hAdded, hDone, hObs, cDone>>
    /\ UNCHANGED <<clientVars, rerankVars, refreshVars, scoreVars, chunkVars>>

\* chat, line 225: return reply (or the exception of debug_search leaves).
ChatReturn ==
    /\ cPc \in {"return", "raised"}
    /\ cPc' = "idle"
    /\ cCall' = idle
    /\ cDone' = cDone + 1
    /\ UNCHANGED <<histFiles, hPc, hLocal, hAdded, hDone, hObs>>
    /\ UNCHANGED <<clientVars, rerankVars, refreshVars, scoreVars, chunkVars>>

NextChat ==
    \/ \E use_history, debug \in BOOLEAN, dbgOutcome, outcome \in SearchOutcomes :
           ChatSearch(use_history, debug, dbgOutcome, outcome)
    \/ \E readable \in Readable(histFiles, ChatKey) : ChatHistory(readable)
    \/ \E llmOk \in BOOLEAN : ChatLLM(llmOk)
    \/ \E readable \in Readable(histFiles, ChatKey), saveOk \in BOOLEAN :
           ChatSaveUser(readable, saveOk)
    \/ \E readable \in Readable(histFiles, ChatKey), saveOk \in BOOLEAN :
           ChatSaveAssistant(readable, saveOk)
    \/ ChatReturn

SpecChat == InitChat /\ [][NextChat]_vars

\* The two messages of the turn of the chat call c.
Turn(c) == <<Message("user", c.message), Message("assistant", c.reply)>>

\* The prompt history of c was read before the turn was stored: it holds
\* at most 5 messages, the most recent ones of the history stored before
\* the call (none when use_history is off or the file could not be read).
PromptBeforeTurn(c) ==
    /\ Len(c.history) <= PromptLimit
    /\ c.history = IF c.use_history /\ "read" \notin c.faults
                   THEN LastN(c.before, Min2(PromptLimit, Len(c.before)))
                   ELSE <<>>

====
